---- MODULE Spec2Model ----
(***************************************************************************)
(* A model of src.ts/providers/provider-aws.ts: the AwsProvider of         *)
(* ethers.js, which resolves an Amazon Managed Blockchain node endpoint,   *)
(* obtains AWS credentials and installs a SigV4 signing hook               *)
(* (preflightFunc) on the FetchRequest used for JSON-RPC calls.            *)
(*                                                                         *)
(* JavaScript values are modelled as follows.  `undefined` is the string   *)
(* Undefined; a string is a TLA+ string; a template literal is the         *)
(* sequence of its fragments (so two URLs are equal exactly when the same  *)
(* fragments were concatenated); a thrown error is a record; an object     *)
(* with optional members is a record whose absent members hold a fixed     *)
(* "absent" value of the member's type.                                    *)
(***************************************************************************)
EXTENDS Naturals, Sequences, FiniteSets

VARIABLES
    providers,     \* the AwsProvider instances constructed so far, in order
    env,           \* the credentials the AWS SDK finds in the environment
    envReads,      \* how many times the environment was asked for credentials
    credFailures,  \* how many constructions ended in "credentials not found"
    nCtor,         \* how many times the constructor was entered
    origin,        \* per provider: the provider it was derived from (0:
                   \* none) and whether its credentials were handed in
    last,          \* a record of the last constructor / _getProvider call
    calls,         \* the requests in flight, one record per call slot
    clock          \* the wall clock read by `new Date()`

vars == <<providers, origin, env, envReads, credFailures, nCtor, last, calls,
          clock>>

(***************************************************************************)
(* Bounds of the model.                                                    *)
(***************************************************************************)
MaxCtor == 3       \* constructor entries per behaviour
MaxCalls == 2      \* concurrent call slots (specification SpecSign)
MaxClock == 1      \* clock ticks per behaviour
MaxDispatch == 2   \* dispatches per call slot

(***************************************************************************)
(* JavaScript values.                                                      *)
(***************************************************************************)
Undefined == "<undefined>"

\* `!x` for x : string | undefined  (provider-aws.ts:211, 218, 225, 231, 80)
Falsy(x) == x \in {Undefined, ""}

\* A Networkish argument: undefined, a network name or a chain id.
UndefNetwork == [kind |-> "undefined", name |-> "", chainId |-> 0]
NameNet(n) == [kind |-> "name", name |-> n, chainId |-> 0]
ChainNet(c) == [kind |-> "chainId", name |-> "", chainId |-> c]

NoNetwork == [name |-> "", chainId |-> 0]
NoError == [code |-> "", message |-> "", argument |-> "", value |-> ""]

\* assertArgument(false, message, name, value): always throws.
ArgumentError(message, name, value) ==
    [code |-> "INVALID_ARGUMENT", message |-> message, argument |-> name,
     value |-> value]

(***************************************************************************)
(* The network registry behind Network.from (not part of provider-aws.ts). *)
(***************************************************************************)
Registry ==
    { [name |-> "mainnet", chainId |-> 1],
      [name |-> "goerli", chainId |-> 5],
      [name |-> "matic", chainId |-> 137],
      [name |-> "matic-mumbai", chainId |-> 80001],
      [name |-> "optimism", chainId |-> 10] }

\* Network.from(network): the registered network, or an argument error for
\* an identifier the registry does not recognise.
NetworkFrom(network) ==
    LET hits == { r \in Registry :
                    \/ network.kind = "name" /\ r.name = network.name
                    \/ network.kind = "chainId" /\ r.chainId = network.chainId }
    IN IF hits # {}
       THEN [ok |-> TRUE, net |-> CHOOSE r \in hits : TRUE, err |-> NoError]
       ELSE [ok |-> FALSE, net |-> NoNetwork,
             err |-> ArgumentError("unknown network", "network",
                                   IF network.kind = "name" THEN network.name
                                   ELSE "<chainId>")]

(***************************************************************************)
(* getCommunityAmbNodeProps (provider-aws.ts:27-68).  Every case of the    *)
(* switch calls assertArgument(false, ...), which throws, so no case falls *)
(* through and none returns.                                               *)
(***************************************************************************)
NoCommunityNode == "No Amazon Managed Blockchain community node found for network"
UnsupportedNetwork == "Unsupported network"

NoLocation == [nodeId |-> Undefined, nodeRegion |-> Undefined]

getCommunityAmbNodePropsDefaulted(network) ==
    IF network.name = "mainnet"
    THEN [ok |-> TRUE, err |-> NoError,
          loc |-> [nodeId |-> "n-community", nodeRegion |-> "us-east-1"]]
    ELSE [ok |-> FALSE, loc |-> NoLocation,
          err |-> ArgumentError(UnsupportedNetwork, "network.name", network.name)]

getCommunityAmbNodeProps(network) ==
    CASE network.name = "mainnet" ->
           [ok |-> FALSE, loc |-> NoLocation,
            err |-> ArgumentError(NoCommunityNode, "network.name", network.name)]
      [] network.name = "goerli" ->
           [ok |-> FALSE, loc |-> NoLocation,
            err |-> ArgumentError(NoCommunityNode, "network.name", network.name)]
      [] network.name = "matic" ->
           [ok |-> FALSE, loc |-> NoLocation,
            err |-> ArgumentError(NoCommunityNode, "network.name", network.name)]
      [] network.name = "matic-mumbai" ->
           [ok |-> FALSE, loc |-> NoLocation,
            err |-> ArgumentError(NoCommunityNode, "network.name", network.name)]
      [] OTHER ->
           [ok |-> FALSE, loc |-> NoLocation,
            err |-> ArgumentError(UnsupportedNetwork, "network.name", network.name)]

(***************************************************************************)
(* getAmbNodeUrl (provider-aws.ts:73-85): the template literal, and the    *)
(* billing token appended when it is truthy.                               *)
(***************************************************************************)
BillingMark == "?billingToken="

getAmbNodeUrl(nodeId, nodeRegion, billingToken) ==
    LET url == <<"https://", nodeId, ".ethereum.managedblockchain.",
                 nodeRegion, ".amazonaws.com">>
    IN IF ~Falsy(billingToken) THEN url \o <<BillingMark, billingToken>> ELSE url

(***************************************************************************)
(* AwsProvider.getDefaultAwsCredentials (provider-aws.ts:117-127).         *)
(***************************************************************************)
CredentialsNotFound == "AWS Credentials not found by the AWS SDK"

getDefaultAwsCredentials(ambient) ==
    IF ambient # Undefined
    THEN [ok |-> TRUE, credentials |-> ambient, err |-> NoError]
    ELSE [ok |-> FALSE, credentials |-> Undefined,
          err |-> [code |-> "Error", message |-> CredentialsNotFound,
                   argument |-> "", value |-> ""]]

(***************************************************************************)
(* Headers: a mapping from (lower-case) header names to values.            *)
(***************************************************************************)
HeaderNames ==
    {"host", "authorization", "x-amz-date", "x-amz-content-sha256",
     "x-amz-security-token", "content-type", "x-custom"}

Absent == [kind |-> "absent", t |-> 0, data |-> <<>>]
Plain(s) == [kind |-> "plain", t |-> 0, data |-> <<s>>]
NoHeaders == [h \in HeaderNames |-> Absent]

(***************************************************************************)
(* AwsProvider.getFetchRequest (provider-aws.ts:132-192): a FetchRequest   *)
(* to the node URL whose preflightFunc closes over the credentials and the *)
(* region.  The closure is the `signer` member.                            *)
(***************************************************************************)
getFetchRequest(credentials, nodeId, nodeRegion, billingToken) ==
    [url |-> getAmbNodeUrl(nodeId, nodeRegion, billingToken),
     method |-> "GET",
     body |-> Undefined,
     headers |-> NoHeaders,
     signer |-> [credentials |-> credentials, region |-> nodeRegion]]

(***************************************************************************)
(* The AwsProvider constructor (provider-aws.ts:194-252), step by step.    *)
(* Each step yields either a value or the error it throws; `trace` lists   *)
(* the calls the constructor made, in order.                               *)
(***************************************************************************)

\* provider-aws.ts:203-207
NormalizeNetwork(network) ==
    NetworkFrom(IF network = UndefNetwork THEN NameNet("mainnet") ELSE network)

\* provider-aws.ts:211-227, with the nodeRegion-only test dropped.
ResolveNodeLocationNoRegionTest(nodeId, nodeRegion, network) ==
    IF ~Falsy(nodeId) /\ Falsy(nodeRegion)
    THEN [ok |-> FALSE, loc |-> NoLocation, lookup |-> FALSE,
          err |-> ArgumentError("nodeRegion required with nodeId",
                                "nodeRegion", nodeRegion)]
    ELSE IF Falsy(nodeId)
    THEN LET r == getCommunityAmbNodeProps(network)
         IN [ok |-> r.ok, loc |-> r.loc, lookup |-> TRUE, err |-> r.err]
    ELSE [ok |-> TRUE, loc |-> [nodeId |-> nodeId, nodeRegion |-> nodeRegion],
          lookup |-> FALSE, err |-> NoError]

\* provider-aws.ts:211-227
ResolveNodeLocation(nodeId, nodeRegion, network) ==
    IF Falsy(nodeId) /\ ~Falsy(nodeRegion)
    THEN [ok |-> FALSE, loc |-> NoLocation, lookup |-> FALSE,
          err |-> ArgumentError("nodeId required with nodeRegion",
                                "nodeId", nodeId)]
    ELSE IF ~Falsy(nodeId) /\ Falsy(nodeRegion)
    THEN [ok |-> FALSE, loc |-> NoLocation, lookup |-> FALSE,
          err |-> ArgumentError("nodeRegion required with nodeId",
                                "nodeRegion", nodeRegion)]
    ELSE IF Falsy(nodeId)
    THEN LET r == getCommunityAmbNodeProps(network)
         IN [ok |-> r.ok, loc |-> r.loc, lookup |-> TRUE, err |-> r.err]
    ELSE [ok |-> TRUE, loc |-> [nodeId |-> nodeId, nodeRegion |-> nodeRegion],
          lookup |-> FALSE, err |-> NoError]

\* provider-aws.ts:231-233, asking the environment before looking at the
\* argument.
ResolveCredentialsEager(credentials, ambient) ==
    LET r == getDefaultAwsCredentials(ambient)
    IN IF ~Falsy(credentials)
       THEN [ok |-> TRUE, credentials |-> credentials, queried |-> TRUE,
             err |-> NoError]
       ELSE [ok |-> r.ok, credentials |-> r.credentials, queried |-> TRUE,
             err |-> r.err]

\* provider-aws.ts:231-233
ResolveCredentials(credentials, ambient) ==
    IF Falsy(credentials)
    THEN LET r == getDefaultAwsCredentials(ambient)
         IN [ok |-> r.ok, credentials |-> r.credentials, queried |-> TRUE,
             err |-> r.err]
    ELSE [ok |-> TRUE, credentials |-> credentials, queried |-> FALSE,
          err |-> NoError]

NoRequest ==
    [url |-> <<>>, method |-> "", body |-> Undefined, headers |-> NoHeaders,
     signer |-> [credentials |-> Undefined, region |-> Undefined]]

NoProvider ==
    [aws |-> [nodeRegion |-> Undefined, nodeId |-> Undefined,
              nodeHttpEndpoint |-> <<>>, credentials |-> Undefined],
     network |-> NoNetwork, staticNetwork |-> FALSE, request |-> NoRequest]

Thrown(e, tr) == [ok |-> FALSE, err |-> e, trace |-> tr, provider |-> NoProvider]

\* provider-aws.ts:194-252
Constructor(props, ambient) ==
    LET nw == NormalizeNetwork(props.network)
        t1 == <<"Network.from">>
    IN IF ~nw.ok THEN Thrown(nw.err, t1) ELSE
       LET nl == ResolveNodeLocation(props.nodeId, props.nodeRegion, nw.net)
           t2 == IF nl.lookup THEN Append(t1, "getCommunityAmbNodeProps") ELSE t1
       IN IF ~nl.ok THEN Thrown(nl.err, t2) ELSE
          LET cr == ResolveCredentials(props.credentials, ambient)
              t3 == IF cr.queried THEN Append(t2, "getDefaultAwsCredentials")
                    ELSE t2
          IN IF ~cr.ok THEN Thrown(cr.err, t3) ELSE
             LET request == getFetchRequest(cr.credentials, nl.loc.nodeId,
                                            nl.loc.nodeRegion, props.billingToken)
             IN [ok |-> TRUE, err |-> NoError,
                 trace |-> t3 \o <<"getFetchRequest", "super", "this.aws">>,
                 provider |->
                     [aws |-> [nodeRegion |-> nl.loc.nodeRegion,
                               nodeId |-> nl.loc.nodeId,
                               nodeHttpEndpoint |-> request.url,
                               credentials |-> cr.credentials],
                      network |-> nw.net,
                      staticNetwork |-> TRUE,
                      request |-> request]]

(***************************************************************************)
(* AwsProvider._getProvider (provider-aws.ts:254-267).  `result` is "aws"  *)
(* when the new AwsProvider is returned and "base" when the call returns   *)
(* super._getProvider(chainId); `logged` is what console.error received;   *)
(* `thrown` is the error the call itself propagates.                       *)
(***************************************************************************)
\* The billing token of an endpoint URL, Undefined when it has none.
TokenOf(url) ==
    IF \E k \in 1..Len(url) : url[k] = BillingMark /\ k < Len(url)
    THEN url[(CHOOSE k \in 1..Len(url) : url[k] = BillingMark) + 1]
    ELSE Undefined

\* provider-aws.ts:256-261, also handing on the parent's billing token.
DerivePropsWithToken(this, chainId) ==
    [network |-> ChainNet(chainId),
     nodeId |-> this.aws.nodeId,
     nodeRegion |-> this.aws.nodeRegion,
     billingToken |-> TokenOf(this.aws.nodeHttpEndpoint),
     credentials |-> this.aws.credentials]

\* provider-aws.ts:256-261
DeriveProps(this, chainId) ==
    [network |-> ChainNet(chainId),
     nodeId |-> this.aws.nodeId,
     nodeRegion |-> this.aws.nodeRegion,
     billingToken |-> Undefined,
     credentials |-> this.aws.credentials]

\* provider-aws.ts:254-267 without the try/catch: the error propagates.
getProviderNoCatch(this, chainId, ambient) ==
    LET r == Constructor(DeriveProps(this, chainId), ambient)
    IN [ctor |-> r,
        result |-> IF r.ok THEN "aws" ELSE "throw",
        logged |-> NoError,
        baseCalled |-> FALSE,
        thrown |-> r.err]

\* provider-aws.ts:254-267 with the derived provider taking its node
\* location from the community directory instead of from `this.aws`.
getProviderNoLocation(this, chainId, ambient) ==
    LET r == Constructor([DeriveProps(this, chainId) EXCEPT
                              !.nodeId = Undefined, !.nodeRegion = Undefined],
                         ambient)
    IN [ctor |-> r,
        result |-> IF r.ok THEN "aws" ELSE "base",
        logged |-> r.err,
        baseCalled |-> ~r.ok,
        thrown |-> NoError]

getProvider(this, chainId, ambient) ==
    LET r == Constructor(DeriveProps(this, chainId), ambient)
    IN [ctor |-> r,
        result |-> IF r.ok THEN "aws" ELSE "base",
        logged |-> r.err,
        baseCalled |-> ~r.ok,
        thrown |-> NoError]

(***************************************************************************)
(* The inputs the model draws.                                             *)
(***************************************************************************)
NetworkNames ==
    {"mainnet", "goerli", "matic", "matic-mumbai", "optimism", "bogus"}
EnumeratedNames == {"mainnet", "goerli", "matic", "matic-mumbai"}
ChainIds == {1, 10, 999}          \* 999 is in no registry entry
Ambient == {Undefined, "credE"}   \* what the environment may hold
SessionCredentials == {"credS"}   \* credentials that carry a session token

\* Constructions without a nodeId: every network, any nodeRegion.
LookupProps ==
    [nodeId : {Undefined, ""},
     nodeRegion : {Undefined, "", "r1"},
     billingToken : {Undefined},
     network : {UndefNetwork} \cup {NameNet(n) : n \in NetworkNames},
     credentials : {Undefined, "credA"}]

\* Constructions with a nodeId: any nodeRegion, billing token, credentials.
NodeProps ==
    [nodeId : {"n1"},
     nodeRegion : {Undefined, "", "r1"},
     billingToken : {Undefined, "", "tok"},
     network : {UndefNetwork, NameNet("optimism"), NameNet("bogus")},
     credentials : {Undefined, "credA", "credS"}]

AllProps == LookupProps \cup NodeProps

\* The inputs of the specification of construction and derivation.
CoreProps ==
    [nodeId : {Undefined, "n1"},
     nodeRegion : {"r1"},
     billingToken : {Undefined, "tok"},
     network : {UndefNetwork},
     credentials : {Undefined, "credS"}]

\* The inputs of the specification of a provider's whole life.
LifeProps ==
    [nodeId : {Undefined, "n1"},
     nodeRegion : {"r1"},
     billingToken : {"tok"},
     network : {UndefNetwork},
     credentials : {Undefined, "credS"}]
LifeChainIds == {10, 999}

(***************************************************************************)
(* State.                                                                  *)
(***************************************************************************)
Count(seq, x) == Cardinality({k \in 1..Len(seq) : seq[k] = x})

NoProps ==
    [nodeId |-> Undefined, nodeRegion |-> Undefined, billingToken |-> Undefined,
     network |-> UndefNetwork, credentials |-> Undefined]

NoCall ==
    [op |-> "none", props |-> NoProps, ambient |-> Undefined, ok |-> FALSE,
     err |-> NoError, trace |-> <<>>, created |-> 0, parent |-> 0,
     chainId |-> 0, result |-> "", logged |-> NoError, baseCalled |-> FALSE,
     thrown |-> NoError]

\* new AwsProvider(props), by a caller.
Construct(props) ==
    /\ nCtor < MaxCtor
    /\ LET r == Constructor(props, env)
       IN /\ providers' = IF r.ok THEN Append(providers, r.provider)
                          ELSE providers
          /\ origin' = IF r.ok
                       THEN Append(origin,
                                   [parent |-> 0,
                                    explicit |-> ~Falsy(props.credentials)])
                       ELSE origin
          /\ envReads' = envReads + Count(r.trace, "getDefaultAwsCredentials")
          /\ credFailures' = credFailures +
                 (IF ~r.ok /\ r.err.message = CredentialsNotFound THEN 1 ELSE 0)
          /\ last' = [op |-> "construct", props |-> props, ambient |-> env,
                      ok |-> r.ok, err |-> r.err, trace |-> r.trace,
                      created |-> IF r.ok THEN Len(providers) + 1 ELSE 0,
                      parent |-> 0, chainId |-> 0,
                      result |-> IF r.ok THEN "aws" ELSE "throw",
                      logged |-> NoError, baseCalled |-> FALSE,
                      thrown |-> r.err]
    /\ nCtor' = nCtor + 1
    /\ UNCHANGED <<env, calls, clock>>

\* providers[i]._getProvider(chainId) re-targeting `this` instead of building a
\* new provider: the derived state is written over the original's.
DeriveForChainRebind(i, chainId) ==
    /\ nCtor < MaxCtor
    /\ i \in 1..Len(providers)
    /\ LET g == getProvider(providers[i], chainId, env)
           r == g.ctor
       IN /\ providers' = IF g.result = "aws"
                          THEN [providers EXCEPT ![i] = r.provider]
                          ELSE providers
          /\ last' = [op |-> "derive", props |-> DeriveProps(providers[i], chainId),
                      ambient |-> env,
                      ok |-> r.ok, err |-> r.err, trace |-> r.trace,
                      created |-> IF g.result = "aws" THEN i ELSE 0,
                      parent |-> i, chainId |-> chainId,
                      result |-> g.result, logged |-> g.logged,
                      baseCalled |-> g.baseCalled, thrown |-> g.thrown]
    /\ nCtor' = nCtor + 1
    /\ UNCHANGED <<origin, env, envReads, credFailures, calls, clock>>

\* providers[i]._getProvider(chainId)
DeriveForChain(i, chainId) ==
    /\ nCtor < MaxCtor
    /\ i \in 1..Len(providers)
    /\ LET g == getProvider(providers[i], chainId, env)
           r == g.ctor
       IN /\ providers' = IF g.result = "aws" THEN Append(providers, r.provider)
                          ELSE providers
          /\ origin' = IF g.result = "aws"
                       THEN Append(origin, [parent |-> i, explicit |-> TRUE])
                       ELSE origin
          /\ envReads' = envReads + Count(r.trace, "getDefaultAwsCredentials")
          /\ credFailures' = credFailures +
                 (IF ~r.ok /\ r.err.message = CredentialsNotFound THEN 1 ELSE 0)
          /\ last' = [op |-> "derive", props |-> DeriveProps(providers[i], chainId),
                      ambient |-> env,
                      ok |-> r.ok, err |-> r.err, trace |-> r.trace,
                      created |-> IF g.result = "aws" THEN Len(providers) + 1
                                  ELSE 0,
                      parent |-> i, chainId |-> chainId,
                      result |-> g.result, logged |-> g.logged,
                      baseCalled |-> g.baseCalled, thrown |-> g.thrown]
    /\ nCtor' = nCtor + 1
    /\ UNCHANGED <<env, calls, clock>>

\* The operator changes what the AWS SDK finds in the environment.
SetEnv(e) ==
    /\ e # env
    /\ env' = e
    /\ UNCHANGED <<providers, origin, envReads, credFailures, nCtor, last,
                   calls, clock>>

(***************************************************************************)
(* The signing hook (preflightFunc, provider-aws.ts:148-189).              *)
(***************************************************************************)

\* new URL(ethersRequest.url): protocol, hostname / host and pathname.  The
\* endpoint has no port and no path; the query string, when there is one,
\* starts at the billing mark and is in none of the three.
ParseURL(url) ==
    LET marks == {k \in 1..Len(url) : url[k] = BillingMark}
        stop == IF marks = {} THEN Len(url)
                ELSE (CHOOSE k \in marks : \A m \in marks : k <= m) - 1
    IN [protocol |-> "https:",
        hostname |-> SubSeq(url, 2, stop),
        host |-> SubSeq(url, 2, stop),
        pathname |-> "/"]

\* provider-aws.ts:151-161
RequestOptions(ethersRequest) ==
    LET urlParser == ParseURL(ethersRequest.url)
    IN [protocol |-> urlParser.protocol,
        hostname |-> urlParser.hostname,
        method |-> ethersRequest.method,
        host |-> urlParser.host,
        path |-> urlParser.pathname,
        body |-> ethersRequest.body]

SignatureHeaders ==
    {"authorization", "x-amz-date", "x-amz-content-sha256",
     "x-amz-security-token"}

\* signerV4.sign(awsRequest, {signingDate}) of provider-aws.ts:169-178: the
\* request's own headers (host) plus the ones SigV4 adds.  The signature
\* covers the method, host, path and body of the request, the credentials,
\* the region, the service and the signing date.
SignV4(options, credentials, region, date) ==
    [h \in HeaderNames |->
        CASE h = "host" -> [kind |-> "plain", t |-> 0, data |-> options.host]
          [] h = "x-amz-date" -> [kind |-> "date", t |-> date, data |-> <<>>]
          [] h = "x-amz-content-sha256" ->
                 [kind |-> "sha256", t |-> 0, data |-> <<options.body>>]
          [] h = "x-amz-security-token" ->
                 IF credentials \in SessionCredentials
                 THEN [kind |-> "token", t |-> 0, data |-> <<credentials>>]
                 ELSE Absent
          [] h = "authorization" ->
                 [kind |-> "sigv4", t |-> date,
                  data |-> <<credentials, region, "managedblockchain",
                             options.method, options.path, options.body>>
                           \o options.hostname]
          [] OTHER -> Absent]

\* provider-aws.ts:182-186, replacing the request's headers by the signed ones.
MergeSignedHeadersReplace(headers, signedAwsHeaders) == signedAwsHeaders

\* provider-aws.ts:182-186: setHeader for every entry of the signed headers.
MergeSignedHeaders(headers, signedAwsHeaders) ==
    [h \in HeaderNames |->
        IF signedAwsHeaders[h] # Absent THEN signedAwsHeaders[h] ELSE headers[h]]

(***************************************************************************)
(* Calls in flight.  A slot holds one request object and where its         *)
(* dispatch stands: "preflight" (send() was called, the hook has not run), *)
(* "signing" (the hook is suspended at `await signerV4.sign`), "signed"    *)
(* (the hook returned), "sent" (the transport transmitted the request) or  *)
(* "failed" (the hook threw).                                              *)
(***************************************************************************)
Bodies == {Undefined, "b1", "b2"}
Extras == {"none", "x-custom", "host"}   \* a header the caller set itself

IdleCall ==
    [phase |-> "idle", prov |-> 0, req |-> NoRequest, before |-> NoHeaders,
     pending |-> NoHeaders, merged |-> {}, runs |-> 0, start |-> 0, n |-> 0]

\* JsonRpcProvider._send: a clone of the provider's request template with the
\* payload as body, then request.send().
Send(c, i, body, extra) ==
    /\ calls[c].phase \in {"idle", "sent", "failed"}
    /\ calls[c].n < MaxDispatch
    /\ \A d \in 1..(c - 1) : calls[d].phase # "idle"   \* slots are used in order
    /\ i \in 1..Len(providers)
    /\ LET clone == providers[i].request
           hs == [h \in HeaderNames |->
                    IF h = "content-type" THEN Plain("application/json")
                    ELSE IF h = extra THEN Plain("caller")
                    ELSE clone.headers[h]]
       IN calls' = [calls EXCEPT ![c] =
                      [IdleCall EXCEPT
                         !.phase = "preflight", !.prov = i,
                         !.req = [clone EXCEPT !.body = body,
                                               !.method = "POST",
                                               !.headers = hs],
                         !.start = clock, !.n = calls[c].n + 1]]
    /\ UNCHANGED <<providers, origin, env, envReads, credFailures, nCtor, last,
                   clock>>

\* The same request object is used for another call: its body is set anew
\* and it is dispatched again, with the headers it has.
Resend(c, body) ==
    /\ calls[c].phase \in {"sent", "failed"}
    /\ calls[c].n < MaxDispatch
    /\ calls' = [calls EXCEPT ![c].phase = "preflight",
                              ![c].req.body = body,
                              ![c].start = clock,
                              ![c].n = calls[c].n + 1]
    /\ UNCHANGED <<providers, origin, env, envReads, credFailures, nCtor, last,
                   clock>>

\* provider-aws.ts:151-178 with the signature kept from an earlier run of the
\* hook on the same request.
HookStartCached(c) ==
    /\ calls[c].phase = "preflight"
    /\ LET ethersRequest == calls[c].req
           signer == ethersRequest.signer
           fresh == SignV4(RequestOptions(ethersRequest), signer.credentials,
                           signer.region, clock)
           kept == [h \in HeaderNames |->
                      IF h \in SignatureHeaders \cup {"host"}
                      THEN ethersRequest.headers[h] ELSE Absent]
       IN calls' = [calls EXCEPT
                      ![c].phase = "signing",
                      ![c].before = ethersRequest.headers,
                      ![c].pending =
                          IF ethersRequest.headers["authorization"] # Absent
                          THEN kept ELSE fresh]
    /\ UNCHANGED <<providers, origin, env, envReads, credFailures, nCtor, last,
                   clock>>

\* provider-aws.ts:151-178: the hook parses the request, builds the AWS
\* request and calls sign with the current date; it is then suspended.
HookStart(c) ==
    /\ calls[c].phase = "preflight"
    /\ LET ethersRequest == calls[c].req
           signer == ethersRequest.signer
       IN calls' = [calls EXCEPT
                      ![c].phase = "signing",
                      ![c].before = ethersRequest.headers,
                      ![c].pending =
                          SignV4(RequestOptions(ethersRequest),
                                 signer.credentials, signer.region, clock)]
    /\ UNCHANGED <<providers, origin, env, envReads, credFailures, nCtor, last,
                   clock>>

\* The awaited sign call rejects: the hook throws before any setHeader.
HookFail(c) ==
    /\ calls[c].phase = "signing"
    /\ calls' = [calls EXCEPT ![c].phase = "failed",
                              ![c].pending = NoHeaders]
    /\ UNCHANGED <<providers, origin, env, envReads, credFailures, nCtor, last,
                   clock>>

\* provider-aws.ts:182-188 writing to the one request captured by the
\* closure: every request of the provider in flight receives the headers.
HookFinishShared(c) ==
    /\ calls[c].phase = "signing"
    /\ calls' = [d \in DOMAIN calls |->
                   IF d = c
                   THEN [calls[c] EXCEPT
                           !.phase = "signed",
                           !.req.headers = MergeSignedHeaders(calls[c].req.headers,
                                                              calls[c].pending),
                           !.merged = {h \in HeaderNames :
                                         calls[c].pending[h] # Absent},
                           !.runs = calls[c].runs + 1,
                           !.pending = NoHeaders]
                   ELSE IF calls[d].phase # "idle" /\ calls[d].prov = calls[c].prov
                   THEN [calls[d] EXCEPT
                           !.req.headers = MergeSignedHeaders(calls[d].req.headers,
                                                              calls[c].pending)]
                   ELSE calls[d]]
    /\ UNCHANGED <<providers, origin, env, envReads, credFailures, nCtor, last,
                   clock>>

\* provider-aws.ts:182-188: sign resolved; the hook sets every signed header
\* on the request it was given and returns it.
HookFinish(c) ==
    /\ calls[c].phase = "signing"
    /\ calls' = [calls EXCEPT
                   ![c].phase = "signed",
                   ![c].req.headers = MergeSignedHeaders(calls[c].req.headers,
                                                         calls[c].pending),
                   ![c].merged = {h \in HeaderNames : calls[c].pending[h] # Absent},
                   ![c].runs = calls[c].runs + 1,
                   ![c].pending = NoHeaders]
    /\ UNCHANGED <<providers, origin, env, envReads, credFailures, nCtor, last,
                   clock>>

\* The transport transmits the request the hook returned.
Transmit(c) ==
    /\ calls[c].phase = "signed"
    /\ calls' = [calls EXCEPT ![c].phase = "sent"]
    /\ UNCHANGED <<providers, origin, env, envReads, credFailures, nCtor, last,
                   clock>>

Tick ==
    /\ clock < MaxClock
    /\ clock' = clock + 1
    /\ UNCHANGED <<providers, origin, env, envReads, credFailures, nCtor, last,
                   calls>>

(***************************************************************************)
(* Specifications.                                                         *)
(***************************************************************************)
Init ==
    /\ providers = <<>>
    /\ origin = <<>>
    /\ env = Undefined
    /\ envReads = 0
    /\ credFailures = 0
    /\ nCtor = 0
    /\ last = NoCall
    /\ calls = [c \in 1..MaxCalls |-> IdleCall]
    /\ clock = 0

\* The constructor as a function of its arguments and of the environment:
\* the initial state draws both, and the one action makes the call.
InitCtor ==
    \E props \in AllProps, e \in Ambient :
        /\ providers = <<>>
        /\ origin = <<>>
        /\ env = e
        /\ envReads = 0
        /\ credFailures = 0
        /\ nCtor = 0
        /\ last = [NoCall EXCEPT !.props = props, !.ambient = e]
        /\ calls = [c \in 1..MaxCalls |-> IdleCall]
        /\ clock = 0

ConstructDrawn ==
    /\ last.op = "none"
    /\ Construct(last.props)

SpecCtor == InitCtor /\ [][ConstructDrawn]_vars

\* Construction and derivation.
NextProvider ==
    \/ \E props \in CoreProps : Construct(props)
    \/ \E i \in 1..MaxCtor, chainId \in ChainIds : DeriveForChain(i, chainId)
    \/ \E e \in Ambient : SetEnv(e)

SpecProvider == Init /\ [][NextProvider]_vars

\* Calls against one provider that was constructed with explicit node
\* coordinates and credentials.
SignProps ==
    [nodeId : {"n1"}, nodeRegion : {"r1"}, billingToken : {Undefined, "tok"},
     network : {UndefNetwork}, credentials : {"credA", "credS"}]

InitSign ==
    \E props \in SignProps :
        LET r == Constructor(props, Undefined)
        IN /\ providers = <<r.provider>>
           /\ origin = <<[parent |-> 0, explicit |-> TRUE]>>
           /\ env = Undefined
           /\ envReads = 0
           /\ credFailures = 0
           /\ nCtor = 1
           /\ last = [NoCall EXCEPT !.op = "construct", !.props = props,
                                    !.ok = r.ok, !.trace = r.trace,
                                    !.created = 1, !.result = "aws"]
           /\ calls = [c \in 1..MaxCalls |-> IdleCall]
           /\ clock = 0

\* One request object, dispatched again and again.
NextHook ==
    \/ \E body \in Bodies, extra \in Extras : Send(1, 1, body, extra)
    \/ \E body \in Bodies : Resend(1, body)
    \/ HookStart(1)
    \/ HookFail(1)
    \/ HookFinish(1)
    \/ Transmit(1)
    \/ Tick

SpecHook == InitSign /\ [][NextHook]_vars

\* Several calls in flight at once, each with a request object of its own.
NextSign ==
    \/ \E c \in 1..MaxCalls, body \in {"b1", "b2"} :
           calls[c].phase = "idle" /\ Send(c, 1, body, "none")
    \/ \E c \in 1..MaxCalls : HookStart(c)
    \/ \E c \in 1..MaxCalls : HookFail(c)
    \/ \E c \in 1..MaxCalls : HookFinish(c)
    \/ \E c \in 1..MaxCalls : Transmit(c)
    \/ Tick

SpecSign == InitSign /\ [][NextSign]_vars

\* The whole life of a provider: construction, derivation and calls.
Next ==
    \/ \E props \in LifeProps : Construct(props)
    \/ \E i \in 1..MaxCtor, chainId \in LifeChainIds : DeriveForChain(i, chainId)
    \/ \E e \in Ambient : SetEnv(e)
    \/ \E i \in 1..MaxCtor : Send(1, i, "b1", "none")
    \/ HookStart(1)
    \/ HookFail(1)
    \/ HookFinish(1)
    \/ Transmit(1)

Spec == Init /\ [][Next]_vars

(***************************************************************************)
(* Properties.                                                             *)
(***************************************************************************)
Calls(tr) == {tr[k] : k \in 1..Len(tr)}

OneSided(props) == Falsy(props.nodeId) # Falsy(props.nodeRegion)
Neither(props) == Falsy(props.nodeId) /\ Falsy(props.nodeRegion)

\* C1: a construction given exactly one of nodeId / nodeRegion throws an
\* argument error, whatever the network and the credentials, having called
\* neither the community-node lookup nor the credential discovery nor
\* getFetchRequest, and records no provider.
C1_OneSidedFails ==
    (last.op = "construct" /\ OneSided(last.props)) =>
        /\ ~last.ok
        /\ last.result = "throw"
        /\ last.err.code = "INVALID_ARGUMENT"
        /\ Calls(last.trace) \subseteq {"Network.from"}
        /\ last.created = 0
        /\ providers = <<>>
        /\ envReads = 0

C1_Witness ==
    /\ last.op = "construct"
    /\ last.props.nodeId = Undefined
    /\ last.props.nodeRegion = "r1"
    /\ last.props.credentials = Undefined
    /\ last.props.network = NameNet("goerli")
    /\ last.err.argument = "nodeId"

\* C2: a construction given neither nodeId nor nodeRegion always throws and
\* never asks for credentials; when the network is registered the error is
\* the lookup's: "no community node found" for mainnet, goerli, matic and
\* matic-mumbai, "unsupported network" for any other name, with the network
\* name as the error's value.
C2_LookupAlwaysFails ==
    (last.op = "construct" /\ Neither(last.props)) =>
        LET nw == NormalizeNetwork(last.props.network)
        IN /\ ~last.ok
           /\ last.created = 0
           /\ providers = <<>>
           /\ "getDefaultAwsCredentials" \notin Calls(last.trace)
           /\ envReads = 0
           /\ nw.ok =>
                /\ "getCommunityAmbNodeProps" \in Calls(last.trace)
                /\ last.err.code = "INVALID_ARGUMENT"
                /\ last.err.argument = "network.name"
                /\ last.err.value = nw.net.name
                /\ last.err.message =
                       IF nw.net.name \in EnumeratedNames THEN NoCommunityNode
                       ELSE UnsupportedNetwork

C2_Witness ==
    /\ last.op = "construct"
    /\ Neither(last.props)
    /\ last.props.credentials = "credA"
    /\ last.err.message = NoCommunityNode
    /\ last.err.value = "matic-mumbai"

\* C3: the environment is asked for credentials exactly once for each
\* provider constructed without explicit credentials and once for each
\* construction that ends in "credentials not found", and at no other time:
\* not when credentials are handed in, not when a provider is derived for
\* another chain, not when a call is dispatched.  A provider holds the
\* credentials handed in, or else the ones the environment held.
C3_CredentialsResolvedOnce ==
    /\ envReads = Cardinality({i \in 1..Len(providers) : ~origin[i].explicit})
                  + credFailures
    /\ last.op = "derive" => "getDefaultAwsCredentials" \notin Calls(last.trace)
    /\ (last.op \in {"construct", "derive"} /\ ~Falsy(last.props.credentials)) =>
          /\ "getDefaultAwsCredentials" \notin Calls(last.trace)
          /\ last.ok =>
                providers[last.created].aws.credentials = last.props.credentials
    /\ (last.op = "construct" /\ Falsy(last.props.credentials)
        /\ ~Falsy(last.props.nodeId)) =>
          /\ Count(last.trace, "getDefaultAwsCredentials") = 1
          /\ last.ambient = Undefined =>
                (~last.ok /\ last.err.message = CredentialsNotFound)
          /\ last.ambient # Undefined =>
                (last.ok /\ providers[last.created].aws.credentials = last.ambient)

C3_Witness ==
    /\ Len(providers) >= 2
    /\ ~origin[1].explicit
    /\ origin[2].parent = 1
    /\ calls[1].phase = "sent"
    /\ calls[1].prov = 2
    /\ credFailures = 1
    /\ envReads = 2

SameNode(d, p) ==
    /\ d.aws.nodeId = p.aws.nodeId
    /\ d.aws.nodeRegion = p.aws.nodeRegion
    /\ d.aws.credentials = p.aws.credentials

C7_DerivationFallback ==
    last.op = "derive" =>
        /\ last.thrown = NoError
        /\ last.ok => (last.result = "aws" /\ ~last.baseCalled /\ last.created # 0)
        /\ ~last.ok => /\ last.result = "base"
                       /\ last.baseCalled
                       /\ last.logged = last.err
                       /\ last.logged # NoError
                       /\ last.created = 0

C7_Witness ==
    /\ last.op = "derive"
    /\ ~last.ok
    /\ last.baseCalled
    /\ last.logged.message = "unknown network"
    /\ last.chainId = 999

\* C9: the `aws` member of a provider (nodeRegion, nodeId, nodeHttpEndpoint,
\* credentials) never changes once the provider exists, whatever step is
\* taken: a construction, a derivation, a dispatch, a run of the hook that
\* succeeds or fails.
C9_AwsImmutable ==
    [][\A i \in 1..Len(providers) :
          /\ i <= Len(providers')
          /\ providers'[i].aws = providers[i].aws]_vars

C9_Witness ==
    /\ Len(providers) >= 2
    /\ origin[2].parent = 1
    /\ calls[1].phase = "failed"
    /\ calls[1].n = 2
    /\ calls[1].prov = 1

\* C10: a provider returned by _getProvider has no billing token: its
\* endpoint and the URL of its request are the URL of (nodeId, nodeRegion)
\* alone, so they differ from the parent's when the parent has a token.
C10_DerivedHasNoToken ==
    \A i \in 1..Len(providers) :
        origin[i].parent # 0 =>
            LET d == providers[i]
                p == providers[origin[i].parent]
            IN /\ BillingMark \notin Calls(d.aws.nodeHttpEndpoint)
               /\ d.request.url = d.aws.nodeHttpEndpoint
               /\ d.aws.nodeHttpEndpoint =
                      <<"https://", p.aws.nodeId, ".ethereum.managedblockchain.",
                        p.aws.nodeRegion, ".amazonaws.com">>
               /\ TokenOf(p.aws.nodeHttpEndpoint) # Undefined =>
                      d.aws.nodeHttpEndpoint # p.aws.nodeHttpEndpoint

C10_Witness ==
    /\ Len(providers) >= 2
    /\ origin[2].parent = 1
    /\ TokenOf(providers[1].aws.nodeHttpEndpoint) = "tok"
    /\ providers[2].aws.nodeHttpEndpoint # providers[1].aws.nodeHttpEndpoint

\* The signature a request would get from its own method, URL and body,
\* signed for its provider at the date its x-amz-date header states.
OwnSignature(c) ==
    LET r == calls[c].req
        p == providers[calls[c].prov]
    IN SignV4(RequestOptions(r), p.aws.credentials, p.aws.nodeRegion,
              r.headers["x-amz-date"].t)

\* C5: a request is transmitted with the signature of the hook run of that
\* very dispatch: the authorization, date and content-hash headers it leaves
\* with are those of its current method, URL and body, signed no earlier
\* than the dispatch began, also when the same request object is dispatched
\* a second time.
C5_SignedPerDispatch ==
    \A c \in 1..MaxCalls :
        calls[c].phase = "sent" =>
            LET r == calls[c].req
            IN /\ r.headers["authorization"] = OwnSignature(c)["authorization"]
               /\ r.headers["x-amz-date"].kind = "date"
               /\ r.headers["x-amz-date"].t >= calls[c].start
               /\ r.headers["authorization"].t = r.headers["x-amz-date"].t
               /\ r.headers["x-amz-content-sha256"].data = <<r.body>>
               /\ calls[c].runs >= 1

C5_Witness ==
    /\ calls[1].phase = "sent"
    /\ calls[1].runs = 2
    /\ calls[1].start = 1
    /\ calls[1].req.body = "b2"

\* The headers the hook has set when it returns, given the credentials.
HookHeaders(credentials) ==
    {"host", "authorization", "x-amz-date", "x-amz-content-sha256"}
        \cup (IF credentials \in SessionCredentials
              THEN {"x-amz-security-token"} ELSE {})

\* C6 as claimed: when the hook has run a second time on a request, the
\* headers it set are signature headers only (authorization, signed date,
\* content hash, session token), and every other header is as it was.
C6_OnlySignatureHeaders ==
    \A c \in 1..MaxCalls :
        (calls[c].phase = "signed" /\ calls[c].runs = 2) =>
            /\ calls[c].merged \subseteq SignatureHeaders
            /\ \A h \in HeaderNames \ SignatureHeaders :
                  calls[c].req.headers[h] = calls[c].before[h]

\* C6: when the hook returns, on its first and on any later run, it has set
\* every header of the signed request, that is the host header of the URL
\* and the signature headers (the session token only with session
\* credentials), and has left every other header of the request as it was.
C6_HostAndSignatureHeaders ==
    \A c \in 1..MaxCalls :
        calls[c].phase = "signed" =>
            LET r == calls[c].req
            IN /\ calls[c].merged = HookHeaders(r.signer.credentials)
               /\ \A h \in HeaderNames \ calls[c].merged :
                     r.headers[h] = calls[c].before[h]
               /\ r.headers["host"].data = ParseURL(r.url).host
               /\ r.headers["content-type"] = Plain("application/json")

C6_Witness ==
    /\ calls[1].phase = "signed"
    /\ calls[1].runs = 2
    /\ "host" \in calls[1].merged
    /\ calls[1].req.headers["x-custom"] = Plain("caller")
    /\ calls[1].req.signer.credentials = "credS"

\* C8: with several calls in flight, whatever the interleaving of their
\* hooks, a request that was signed carries the signature and content hash
\* of its own method, URL and body; a request whose hook has not returned
\* carries no signature at all; and the provider's request template is never
\* written to.
C8_OwnSignatureUnderInterleaving ==
    /\ \A c \in 1..MaxCalls :
          /\ calls[c].phase \in {"signed", "sent"} =>
                /\ calls[c].req.headers["authorization"] =
                       OwnSignature(c)["authorization"]
                /\ calls[c].req.headers["x-amz-content-sha256"].data =
                       <<calls[c].req.body>>
          /\ calls[c].phase \in {"preflight", "signing", "failed"} =>
                \A h \in SignatureHeaders : calls[c].req.headers[h] = Absent
    /\ \A i \in 1..Len(providers) :
          /\ providers[i].request.headers = NoHeaders
          /\ providers[i].request.body = Undefined

C8_Witness ==
    /\ calls[1].phase = "signing"
    /\ calls[1].pending["x-amz-date"].t = 0
    /\ calls[2].phase = "sent"
    /\ calls[2].req.headers["x-amz-date"].t = 1
    /\ calls[1].req.body # calls[2].req.body

====
